---- MODULE Spec2Model ----
(***************************************************************************)
(* Model of the download-timeseries endpoint of cratestats.io              *)
(* (src/src/main.rs): POST /api/v1/downloads.                              *)
(*                                                                         *)
(* A request travels:  HTTP front (accept) -> request-handling worker     *)
(* (Json extractor, then the handler up to `web::block(..).await`) ->      *)
(* blocking pool thread (db.get, conn.query, row mapping) -> back on the   *)
(* request-handling worker (`.map(..).map_err(..)?`, `Ok(res)`).           *)
(***************************************************************************)
EXTENDS Integers, Sequences, FiniteSets, TLC

\* ------------------------------------------------------------------ bounds
NumRequests == 2        \* requests in flight at once
NumWorkers == 1         \* request-handling workers of the HTTP server
NumThreads == 2         \* threads of the blocking pool behind web::block
MaxSize == 1            \* connections of the r2d2 pool (scaled down)
NumDates == 2           \* calendar dates that occur in the store
MaxCount == 1           \* largest per-row download counter
MaxRows == 3            \* rows of version_downloads

\* JsonConfig::default().limit(1024)
Limit == 1024

Requests == 1..NumRequests
Workers == 1..NumWorkers
Conns == 1..MaxSize
Dates == 1..NumDates

\* ------------------------------------------------------- JSON on the wire
JNull == [t |-> "null", s |-> "", a |-> <<>>]
JStr(x) == [t |-> "str", s |-> x, a |-> <<>>]
JArray(x) == [t |-> "array", s |-> "", a |-> x]

NameStrings == {"serde", "tokio"}
VersionStrings == {"1.0.0", "0.7.0"}

\* A JSON object is a function from the keys it has to their values.
NoKeys == [k \in {} |-> JNull]
Field(k, vals) == {NoKeys} \cup {[x \in {k} |-> v] : v \in vals}
NameValues == {JStr(s) : s \in NameStrings} \cup {JNull}
VersionValues == {JStr(s) : s \in VersionStrings} \cup {JNull, JArray(<<>>)}
Objects ==
    {n @@ v : n \in Field("name", NameValues), v \in Field("version", VersionValues)}

\* JSON arrays of up to three elements.
Arrays ==
    {<<>>,
     <<JStr("serde")>>,
     <<JStr("serde"), JStr("1.0.0")>>,
     <<JStr("serde"), JNull>>,
     <<JStr("serde"), JArray(<<>>)>>,
     <<JNull, JStr("1.0.0")>>,
     <<JStr("serde"), JStr("1.0.0"), JNull>>}

\* A request body: its size in bytes, whether it is well-formed JSON, and the
\* value it denotes when it is: an object (obj), an array (elems), or a scalar.
Malformed == [wf |-> FALSE, kind |-> "none", obj |-> NoKeys, elems |-> <<>>]
Document(o) == [wf |-> TRUE, kind |-> "object", obj |-> o, elems |-> <<>>]
ArrayDocument(e) == [wf |-> TRUE, kind |-> "array", obj |-> NoKeys, elems |-> e]
ScalarDocument == [wf |-> TRUE, kind |-> "scalar", obj |-> NoKeys, elems |-> <<>>]
Documents ==
    {Document(o) : o \in Objects} \cup {ArrayDocument(e) : e \in Arrays}
        \cup {ScalarDocument, Malformed}
NameOnly(n) == [k \in {"name"} |-> JStr(n)]
VersionOnly(v) == [k \in {"version"} |-> v]
NameVersion(n, v) == [k \in {"name", "version"} |-> IF k = "name" THEN JStr(n) ELSE v]
WithLen(d, l) ==
    [len |-> l, wf |-> d.wf, kind |-> d.kind, obj |-> d.obj, elems |-> d.elems]

\* The bodies concurrent clients send: valid requests with and without a
\* version, as an object and as an array, the malformed shapes, and bodies
\* over the ceiling.
Bodies ==
    {WithLen(Document(NameOnly("serde")), Limit),
     WithLen(Document(NameVersion("serde", JNull)), Limit),
     WithLen(Document(NameVersion("serde", JStr("1.0.0"))), Limit),
     WithLen(ArrayDocument(<<JStr("tokio"), JStr("0.7.0")>>), Limit),
     WithLen(Malformed, Limit),
     WithLen(Document(NoKeys), 2),
     WithLen(Document(VersionOnly(JStr("1.0.0"))), Limit),
     WithLen(Document(NameVersion("serde", JArray(<<>>))), Limit),
     WithLen(ArrayDocument(<<JStr("serde")>>), Limit),
     WithLen(Document(NameVersion("serde", JStr("1.0.0"))), Limit + 1),
     WithLen(Malformed, 2000)}

\* The bodies the single-request specification draws from: every document at
\* the largest size the extractor accepts.
AllBodies == {WithLen(d, Limit) : d \in Documents}
NoBody == [len |-> 0, wf |-> FALSE, kind |-> "none", obj |-> NoKeys, elems |-> <<>>]

\* Option<String>: None is <<>>, Some(s) is <<s>>.
None == <<>>
Some(s) == <<s>>

\* ------------------------------------------------------------------ store
\* The relational schema the queries read: crates, versions, version_downloads.
crates == {[id |-> 1, name |-> "serde"], [id |-> 2, name |-> "rand"]}
versions ==
    {[id |-> 1, crate_id |-> 1, num |-> "1.0.0"],
     [id |-> 2, crate_id |-> 1, num |-> "1.0.1"],
     [id |-> 3, crate_id |-> 2, num |-> "1.0.0"]}

VARIABLES
    version_downloads,  \* the rows of the per-version-per-date counter table
    sent,               \* sent[r]: the body the client sent
    pc,                 \* pc[r]: where request r is in the HTTP front / handler
    req,                \* req[r]: the parsed DownloadTimeseriesRequest (item.0)
    job,                \* job[r]: the unit of work handed to web::block
    held,               \* held[r]: the pooled connection the closure holds, 0 if none
    rows,               \* rows[r]: what conn.query returned
    value,              \* value[r]: the Response the closure returned
    response,           \* response[r]: the HTTP response written to the client
    panicked,           \* panicked[r]: the unwrap/get whose panic message stderr holds
    running,            \* the requests whose closures threads of the blocking pool run
    polling             \* polling[w]: the request whose future worker w is polling

vars == <<version_downloads, sent, pc, req, job, held, rows, value, response,
          panicked, running, polling>>

\* ---------------------------------------------------------- Json extractor
\* The extractor never finding the configured limit: the default of 32 KiB applies.
OverflowDefaultLimit(len) == len > 32 * 1024

\* JsonBody: a payload longer than the configured limit is an Overflow error.
Overflow(len) == len > Limit

NoReq == [ok |-> FALSE, name |-> "", version |-> None]

\* Option<String> from a JSON value: null is None, a string is Some, any other
\* type is an error (here <<"", "">>, which no Option is).
OptionString(j) ==
    IF j.t = "null" THEN None
    ELSE IF j.t = "str" THEN Some(j.s)
    ELSE <<"", "">>

\* The struct's visit_map: `name` must be there and a string; `version` may be
\* missing, and is an Option<String> when it is there.
DeserializeMap(o) ==
    IF "name" \notin DOMAIN o THEN NoReq
    ELSE IF o["name"].t # "str" THEN NoReq
    ELSE IF "version" \in DOMAIN o /\ o["version"].t \notin {"null", "str"} THEN NoReq
    ELSE [ok |-> TRUE,
          name |-> o["name"].s,
          version |-> IF "version" \in DOMAIN o THEN OptionString(o["version"]) ELSE None]

\* The struct's visit_seq: the fields in order, both of them, and no more.
DeserializeSeq(e) ==
    IF Len(e) # 2 THEN NoReq
    ELSE IF e[1].t # "str" THEN NoReq
    ELSE IF e[2].t \notin {"null", "str"} THEN NoReq
    ELSE [ok |-> TRUE, name |-> e[1].s, version |-> OptionString(e[2])]

\* serde's derived Deserialize for DownloadTimeseriesRequest
\* { name: String, version: Option<String> }, from serde_json: a struct is read
\* from an object or from an array.
Deserialize(b) ==
    IF ~b.wf THEN NoReq
    ELSE IF b.kind = "object" THEN DeserializeMap(b.obj)
    ELSE IF b.kind = "array" THEN DeserializeSeq(b.elems)
    ELSE NoReq

\* JsonPayloadError as a response: Overflow is 413, every other error 400.
EmptyText == [kind |-> "empty", json |-> NoKeys]
PayloadErrorResponse(b) ==
    [status |-> IF Overflow(b.len) THEN 413 ELSE 400, body |-> EmptyText]

\* web::Json<T>::from_request: Ok(item) or the payload error.
Extract(b) ==
    IF Overflow(b.len) THEN NoReq ELSE Deserialize(b)

\* ------------------------------------------------------------- the queries
RECURSIVE SumDownloads(_)
SumDownloads(S) ==
    IF S = {} THEN 0
    ELSE LET x == CHOOSE y \in S : TRUE
         IN x.d.downloads + SumDownloads(S \ {x})

\* FROM crates JOIN versions ON crates.id = versions.crate_id
\*             JOIN version_downloads ON versions.id = version_downloads.version_id
Joined(vd) ==
    {[c |-> c, v |-> v, d |-> d] : c \in crates, v \in versions, d \in vd}

\* LEFT JOIN version_downloads: a version without counters still yields a row,
\* its date and counter NULL (here 0).
LeftJoinOn(vd) ==
    {j \in Joined(vd) : j.c.id = j.v.crate_id /\ j.v.id = j.d.version_id}
        \cup {[c |-> c, v |-> v, d |-> [version_id |-> v.id, date |-> 0, downloads |-> 0]] :
                c \in crates,
                v \in {x \in versions : \A d \in vd : d.version_id # x.id}}

JoinOn(vd) ==
    {j \in Joined(vd) : j.c.id = j.v.crate_id /\ j.v.id = j.d.version_id}

\* WHERE crates.name = $1 AND versions.num = $2
WhereNameVersion(J, name, num) ==
    {j \in J : j.c.name = name /\ j.v.num = num}

\* WHERE crates.name = $1
WhereName(J, name) ==
    {j \in J : j.c.name = name}

\* GROUP BY version_downloads.date, SELECT date, sum(downloads)
GroupByDate(J) ==
    {[date |-> dt, downloads |-> SumDownloads({k \in J : k.d.date = dt})] :
        dt \in {j.d.date : j \in J}}

\* ORDER BY version_downloads.date DESC
RECURSIVE OrderByDateDesc(_)
OrderByDateDesc(G) ==
    IF G = {} THEN <<>>
    ELSE LET first == CHOOSE g \in G : \A h \in G : g.date >= h.date
         IN <<first>> \o OrderByDateDesc(G \ {first})

\* ORDER BY version_downloads.date ASC
RECURSIVE OrderByDate(_)
OrderByDate(G) ==
    IF G = {} THEN <<>>
    ELSE LET first == CHOOSE g \in G : \A h \in G : g.date <= h.date
         IN <<first>> \o OrderByDate(G \ {first})

\* The query with the version filter, bound to [&req.name, &version].
QueryNameVersion(vd, name, num) ==
    OrderByDate(GroupByDate(WhereNameVersion(JoinOn(vd), name, num)))

\* The query without it, bound to [&req.name].
QueryName(vd, name) ==
    OrderByDate(GroupByDate(WhereName(JoinOn(vd), name)))

\* Both branches running the query without the version filter.
RunQueryNameOnly(vd, rq) == QueryName(vd, rq.name)

\* let rows = if let Some(version) = req.version.as_ref() { .. } else { .. };
RunQuery(vd, rq) ==
    IF rq.version # None
    THEN QueryNameVersion(vd, rq.name, rq.version[1])
    ELSE QueryName(vd, rq.name)

\* rows.iter().map(|row| Download { date: row.get(0), downloads: row.get(1) })
MapRows(rs) ==
    [i \in 1..Len(rs) |-> [date |-> rs[i].date, downloads |-> rs[i].downloads]]

\* The Response built without the request's version.
BuildResponseNoVersion(rq, downloads) ==
    [name |-> rq.name, version |-> None, downloads |-> downloads]

\* Ok(Response { name: req.name.clone(), version: req.version.clone(), downloads })
BuildResponse(rq, downloads) ==
    [name |-> rq.name, version |-> rq.version, downloads |-> downloads]

NoValue == [name |-> "", version |-> None, downloads |-> <<>>]

\* serde's derived Serialize for Response: an Option field is always written,
\* None as null.
ToJson(v) ==
    [k \in {"name", "version", "downloads"} |->
        IF k = "name" THEN JStr(v.name)
        ELSE IF k = "version" THEN (IF v.version = None THEN JNull ELSE JStr(v.version[1]))
        ELSE JArray(v.downloads)]

\* The error arm falling back to a default value instead of the 500.
ResolveOrDefault(state, v) ==
    [status |-> 200, body |-> [kind |-> "json", json |-> ToJson(v)]]

\* .map(|v| HttpResponse::Ok().json(v)).map_err(|_| HttpResponse::InternalServerError())?
ResolveResponse(state, v) ==
    IF state = "completed"
    THEN [status |-> 200,
          body |-> [kind |-> "json", json |-> ToJson(v)]]
    ELSE [status |-> 500, body |-> EmptyText]

NoResponse == [status |-> 0, body |-> EmptyText]

\* ------------------------------------------------------------------ stores
Key(row) == <<row.version_id, row.date>>
\* The rows a table may hold: a counter is 0 or the largest value.
AllRows ==
    {[version_id |-> v.id, date |-> dt, downloads |-> n] :
        v \in versions, dt \in Dates, n \in {0, MaxCount}}

\* Every table of at most k rows, (version_id, date) being the primary key.
RECURSIVE StoresUpTo(_)
StoresUpTo(k) ==
    IF k = 0 THEN {{}}
    ELSE LET P == StoresUpTo(k - 1)
         IN P \cup UNION {{S \cup {row} :
                              row \in {x \in AllRows : \A y \in S : Key(y) # Key(x)}} :
                           S \in P}

\* Two versions of serde counted 5 and 7 on the same date, and a later date.
ExampleStore ==
    {[version_id |-> 1, date |-> 1, downloads |-> 5],
     [version_id |-> 2, date |-> 1, downloads |-> 7],
     [version_id |-> 3, date |-> 1, downloads |-> 3],
     [version_id |-> 1, date |-> 2, downloads |-> 1]}
\* ------------------------------------------------------------------- pools
WorkerOf(r) == ((r - 1) % NumWorkers) + 1

\* A pool that hands out connections without tracking who holds them.
AllConns == Conns

\* r2d2: the connections no closure holds.
IdleConns == Conns \ {held[r] : r \in Requests}

\* The pool hands out the first idle connection.
First(S) == CHOOSE x \in S : \A y \in S : x <= y

\* The threads of the blocking pool that run no closure.
IdleThreads == NumThreads - Cardinality(running)

\* A connection that is never given back (mem::forget, or a leaked guard).
LeakConn(r) == held

\* Dropping the PooledConnection (end of the closure, or unwinding) returns it.
DropConn(r) == [held EXCEPT ![r] = 0]

\* The blocking thread goes back to its pool when the closure returns or panics.
ReleaseThread(r) == running \ {r}

\* The work run inline: the worker stays with the request while it runs.
NoYield(r) == polling

\* The worker is released when the handler's future returns Pending or Ready.
Yield(r) == [w \in Workers |-> IF polling[w] = r THEN 0 ELSE polling[w]]

\* ------------------------------------------------------------------- state
Init ==
    /\ version_downloads = ExampleStore
    /\ sent = [r \in Requests |-> NoBody]
    /\ pc = [r \in Requests |-> "idle"]
    /\ req = [r \in Requests |-> NoReq]
    /\ job = [r \in Requests |-> "none"]
    /\ held = [r \in Requests |-> 0]
    /\ rows = [r \in Requests |-> <<>>]
    /\ value = [r \in Requests |-> NoValue]
    /\ response = [r \in Requests |-> NoResponse]
    /\ panicked = [r \in Requests |-> ""]
    /\ running = {}
    /\ polling = [w \in Workers |-> 0]

\* The HTTP front hands a request with body b to the worker of its connection,
\* which starts the route's service: the Json extractor, then the handler.
Accept(r, b) ==
    /\ pc[r] = "idle"
    /\ polling[WorkerOf(r)] = 0
    /\ sent' = [sent EXCEPT ![r] = b]
    /\ pc' = [pc EXCEPT ![r] = "extracting"]
    /\ polling' = [polling EXCEPT ![WorkerOf(r)] = r]
    /\ UNCHANGED <<panicked, version_downloads, req, job, held, rows, value, response, running>>

\* The extractor fails: the payload error is the response, the handler is not called.
Reject(r) ==
    /\ pc[r] = "extracting"
    /\ ~Extract(sent[r]).ok
    /\ response' = [response EXCEPT ![r] = PayloadErrorResponse(sent[r])]
    /\ pc' = [pc EXCEPT ![r] = "done"]
    /\ polling' = Yield(r)
    /\ UNCHANGED <<panicked, version_downloads, sent, req, job, held, rows, value, running>>

\* The handler's first poll reaches web::block: the request is moved into the
\* closure and the closure is handed to the blocking pool, where a thread may
\* take it at once. The worker is still inside this poll of the handler.
Submit(r) ==
    /\ pc[r] = "extracting"
    /\ Extract(sent[r]).ok
    /\ req' = [req EXCEPT ![r] = Extract(sent[r])]
    /\ job' = [job EXCEPT ![r] = "queued"]
    /\ pc' = [pc EXCEPT ![r] = "submitted"]
    /\ UNCHANGED <<panicked, version_downloads, sent, held, rows, value, response, running, polling>>

\* The first poll of the future of web::block finds the work unresolved and
\* returns Pending: the handler is suspended and the worker yields.
Pending(r) ==
    /\ pc[r] = "submitted"
    /\ job[r] \notin {"completed", "canceled"}
    /\ pc' = [pc EXCEPT ![r] = "awaiting"]
    /\ polling' = Yield(r)
    /\ UNCHANGED <<panicked, version_downloads, sent, req, job, held, rows, value, response, running>>

\* The first poll of the future of web::block finds the work already resolved
\* and is Ready: the handler maps the result to the response and returns within
\* the poll that submitted the work, never having been suspended.
Ready(r) ==
    /\ pc[r] = "submitted"
    /\ job[r] \in {"completed", "canceled"}
    /\ response' = [response EXCEPT ![r] = ResolveResponse(job[r], value[r])]
    /\ pc' = [pc EXCEPT ![r] = "done"]
    /\ polling' = Yield(r)
    /\ UNCHANGED <<panicked, version_downloads, sent, req, job, held, rows, value, running>>

\* A free thread of the blocking pool takes the closure.
Start(r) ==
    /\ job[r] = "queued"
    /\ IdleThreads > 0
    /\ running' = running \cup {r}
    /\ job' = [job EXCEPT ![r] = "acquire"]
    /\ UNCHANGED <<panicked, version_downloads, sent, pc, req, held, rows, value, response, polling>>

\* The blocking pool drops the closure without running it: the future is Canceled.
ScheduleFail(r) ==
    /\ job[r] = "queued"
    /\ job' = [job EXCEPT ![r] = "canceled"]
    /\ UNCHANGED <<panicked, version_downloads, sent, pc, req, held, rows, value, response,
                   running, polling>>

\* let conn = db.get().unwrap();  an idle connection is checked out.
Acquire(r, c) ==
    /\ job[r] = "acquire"
    /\ IdleConns # {}
    /\ c = First(IdleConns)
    /\ held' = [held EXCEPT ![r] = c]
    /\ job' = [job EXCEPT ![r] = "query"]
    /\ UNCHANGED <<panicked, version_downloads, sent, pc, req, rows, value, response,
                   running, polling>>

\* db.get() times out (no idle connection, or none can be opened): unwrap panics.
AcquireFail(r) ==
    /\ job[r] = "acquire"
    /\ panicked' = [panicked EXCEPT ![r] = "acquire"]
    /\ job' = [job EXCEPT ![r] = "canceled"]
    /\ running' = ReleaseThread(r)
    /\ UNCHANGED <<version_downloads, sent, pc, req, held, rows, value, response, polling>>

\* conn.query(..).unwrap() returns the rows.
Query(r) ==
    /\ job[r] = "query"
    /\ rows' = [rows EXCEPT ![r] = RunQuery(version_downloads, req[r])]
    /\ job' = [job EXCEPT ![r] = "map"]
    /\ UNCHANGED <<panicked, version_downloads, sent, pc, req, held, value, response,
                   running, polling>>

\* conn.query(..) is an Err: unwrap panics, unwinding drops conn.
QueryFail(r) ==
    /\ job[r] = "query"
    /\ held' = DropConn(r)
    /\ panicked' = [panicked EXCEPT ![r] = "query"]
    /\ job' = [job EXCEPT ![r] = "canceled"]
    /\ running' = ReleaseThread(r)
    /\ UNCHANGED <<version_downloads, sent, pc, req, rows, value, response, polling>>

\* The rows are mapped, the Response is built, the closure returns: conn is dropped
\* and the result is sent to the waiting future.
Map(r) ==
    /\ job[r] = "map"
    /\ value' = [value EXCEPT ![r] = BuildResponse(req[r], MapRows(rows[r]))]
    /\ rows' = [rows EXCEPT ![r] = <<>>]
    /\ held' = DropConn(r)
    /\ job' = [job EXCEPT ![r] = "completed"]
    /\ running' = ReleaseThread(r)
    /\ UNCHANGED <<panicked, version_downloads, sent, pc, req, response, polling>>

\* row.get(..) panics on a row (a column of another type): unwinding drops conn.
MapFail(r) ==
    /\ job[r] = "map"
    /\ Len(rows[r]) > 0
    /\ rows' = [rows EXCEPT ![r] = <<>>]
    /\ held' = DropConn(r)
    /\ panicked' = [panicked EXCEPT ![r] = "mapping"]
    /\ job' = [job EXCEPT ![r] = "canceled"]
    /\ running' = ReleaseThread(r)
    /\ UNCHANGED <<version_downloads, sent, pc, req, value, response, polling>>

\* The future resolved: the worker polls the handler again, which maps the
\* result to the response and returns.
Resume(r) ==
    /\ pc[r] = "awaiting"
    /\ job[r] \in {"completed", "canceled"}
    /\ polling[WorkerOf(r)] = 0
    /\ response' = [response EXCEPT ![r] = ResolveResponse(job[r], value[r])]
    /\ pc' = [pc EXCEPT ![r] = "done"]
    /\ UNCHANGED <<panicked, version_downloads, sent, req, job, held, rows, value, running, polling>>

Next ==
    \E r \in Requests :
        \/ \E b \in Bodies : Accept(r, b)
        \/ Reject(r)
        \/ Submit(r)
        \/ Pending(r)
        \/ Ready(r)
        \/ Start(r)
        \/ ScheduleFail(r)
        \/ \E c \in Conns : Acquire(r, c)
        \/ AcquireFail(r)
        \/ Query(r)
        \/ QueryFail(r)
        \/ Map(r)
        \/ MapFail(r)
        \/ Resume(r)

Spec == Init /\ [][Next]_vars

\* One request at a time against every small store: the queries as functions of
\* (store, name, version).
InitQuery ==
    /\ version_downloads \in StoresUpTo(MaxRows)
    /\ sent = [r \in Requests |-> NoBody]
    /\ pc = [r \in Requests |-> "idle"]
    /\ req = [r \in Requests |-> NoReq]
    /\ job = [r \in Requests |-> "none"]
    /\ held = [r \in Requests |-> 0]
    /\ rows = [r \in Requests |-> <<>>]
    /\ value = [r \in Requests |-> NoValue]
    /\ response = [r \in Requests |-> NoResponse]
    /\ panicked = [r \in Requests |-> ""]
    /\ running = {}
    /\ polling = [w \in Workers |-> 0]

NextQuery ==
    \/ \E b \in AllBodies : Accept(1, b)
    \/ Reject(1)
    \/ Submit(1)
    \/ Pending(1)
    \/ Ready(1)
    \/ Start(1)
    \/ ScheduleFail(1)
    \/ \E c \in Conns : Acquire(1, c)
    \/ AcquireFail(1)
    \/ Query(1)
    \/ QueryFail(1)
    \/ Map(1)
    \/ MapFail(1)
    \/ Resume(1)

SpecQuery == InitQuery /\ [][NextQuery]_vars

\* ------------------------------------------------------------------ claims
Done(r) == pc[r] = "done"
Generic500 == [status |-> 500, body |-> EmptyText]
InDatabaseWork(r) == job[r] \in {"acquire", "query", "map"}
Resolved(r) == job[r] \in {"completed", "canceled"}

\* C1: a request that passed parsing and whose work failed (the closure was
\* dropped unrun, or db.get, conn.query or row.get panicked) is answered with the
\* generic 500 with an empty body, never with a 200 and never with data, and it
\* is never left without a way to its response.
C1_FaultIsGeneric500 ==
    \A r \in Requests :
        job[r] = "canceled" =>
            /\ response[r] \in {NoResponse, Generic500}
            /\ Done(r) => response[r] = Generic500
            /\ ~Done(r) =>
                \/ pc[r] = "submitted" /\ ENABLED Ready(r)
                \/ /\ pc[r] = "awaiting"
                   /\ polling[WorkerOf(r)] # 0 \/ ENABLED Resume(r)

C1_Witness ==
    \E r \in Requests :
        Done(r) /\ panicked[r] = "mapping" /\ response[r] = Generic500

\* C2: a body that is malformed JSON or has no `name` field is answered with a
\* 4xx, and no closure is queued, no connection borrowed and no query run for it.
\* (An array body has no `name` field, and the derived Deserialize reads it.)
C2_BadBodyIsInputFault ==
    \A r \in Requests :
        (sent[r] # NoBody /\ (~sent[r].wf \/ "name" \notin DOMAIN sent[r].obj)) =>
            /\ job[r] = "none"
            /\ held[r] = 0
            /\ rows[r] = <<>>
            /\ req[r] = NoReq
            /\ Done(r) => response[r].status \in 400..499

\* C3: a body of more than 1024 bytes is answered with a 4xx without the
\* handler being called: no closure, no connection and no query, ever.
C3_OversizeRejectedBeforeHandler ==
    \A r \in Requests :
        sent[r].len > 1024 =>
            /\ job[r] = "none"
            /\ held[r] = 0
            /\ rows[r] = <<>>
            /\ req[r] = NoReq
            /\ panicked[r] = ""
            /\ Done(r) => response[r].status \in 400..499

C3_Witness ==
    \E r \in Requests :
        sent[r].len = 2000 /\ Done(r) /\ response[r].status = 413

\* C4: a request holds a connection exactly while its query and row mapping
\* run, never more than one, never one another request holds; it has given it
\* back when the closure ends (normally or by a panic), and when no request is
\* in flight every connection is idle.
C4_ConnectionBorrowedAndReturned ==
    /\ \A r \in Requests :
        /\ held[r] \in Conns \cup {0}
        /\ (held[r] # 0) <=> (job[r] \in {"query", "map"})
        /\ (Resolved(r) \/ Done(r)) => held[r] = 0
    /\ \A r1, r2 \in Requests : (r1 # r2 /\ held[r1] # 0) => held[r1] # held[r2]
    /\ (\A r \in Requests : pc[r] \in {"idle", "done"}) => IdleConns = Conns

C4_Witness ==
    /\ \A r \in Requests : Done(r)
    /\ \E r \in Requests : panicked[r] = "query"
    /\ \E r \in Requests : response[r].status = 200
    /\ IdleConns = Conns

\* C10 as stated: the worker yields when it submits the work, so whenever the
\* database work of a request runs, no worker is polling that request and its
\* handler is suspended.
C10_WorkerYieldedWhileWorkRuns ==
    \A r \in Requests :
        InDatabaseWork(r) =>
            /\ \A w \in Workers : polling[w] # r
            /\ pc[r] = "awaiting"

\* C10, amended: the database work of a request runs on a thread of the
\* blocking pool and on no request-handling worker. The work may start, and
\* end, while the worker is still in the poll that submitted it; that poll
\* never waits for the work: it can always end, Pending while the work is
\* unresolved and Ready once it is resolved. A suspended handler keeps no
\* worker, which is free for other requests while the work runs, and the
\* response is written only once the work has completed or the bridge has
\* reported it canceled.
C10_WorkOnBlockingPool ==
    \A r \in Requests :
        /\ InDatabaseWork(r) =>
            /\ r \in running
            /\ pc[r] \in {"submitted", "awaiting"}
        /\ held[r] # 0 => r \in running
        /\ pc[r] = "submitted" =>
            /\ polling[WorkerOf(r)] = r
            /\ ENABLED Pending(r) \/ ENABLED Ready(r)
        /\ pc[r] = "awaiting" => \A w \in Workers : polling[w] # r
        /\ (job[r] # "none" /\ ~Resolved(r)) => response[r] = NoResponse
        /\ (job[r] # "none" /\ Done(r)) => Resolved(r)

\* One request's query runs while its suspended handler's worker polls another
\* request, and another request's work ended within the poll that submitted it.
C10_Witness ==
    \E r1, r2 \in Requests :
        /\ r1 # r2
        /\ WorkerOf(r1) = WorkerOf(r2)
        /\ job[r1] = "query" /\ pc[r1] = "awaiting"
        /\ polling[WorkerOf(r1)] = r2
        /\ pc[r2] = "submitted" /\ job[r2] = "completed"

\* The request as the client wrote it, and the response as the client reads it.
Supplied(r, k) ==
    IF sent[r].kind = "array" THEN k = "name" \/ k = "version"
    ELSE k \in DOMAIN sent[r].obj
SuppliedValue(r, k) ==
    IF sent[r].kind = "array" THEN sent[r].elems[IF k = "name" THEN 1 ELSE 2]
    ELSE sent[r].obj[k]
SentName(r) == SuppliedValue(r, "name").s
SentVersionGiven(r) ==
    Supplied(r, "version") /\ SuppliedValue(r, "version").t = "str"
Success(r) == Done(r) /\ response[r].status = 200
Points(r) == response[r].body.json["downloads"].a

\* The counter rows the request is about: the rows of versions of the package
\* named `name`, of the version numbered `version` alone when one is given.
PackageOf(row) ==
    {c.name : c \in {x \in crates :
        \E v \in versions : v.id = row.version_id /\ v.crate_id = x.id}}
NumberOf(row) == {v.num : v \in {x \in versions : x.id = row.version_id}}
Matching(r) ==
    {row \in version_downloads :
        /\ SentName(r) \in PackageOf(row)
        /\ SentVersionGiven(r) => SuppliedValue(r, "version").s \in NumberOf(row)}

\* The sum of the counters of the rows of R dated dt, version by version.
RECURSIVE TotalOn(_, _, _)
TotalOn(R, dt, vid) ==
    IF vid = 0 THEN 0
    ELSE LET hit == {row \in R : row.date = dt /\ row.version_id = vid}
         IN (IF hit = {} THEN 0 ELSE (CHOOSE row \in hit : TRUE).downloads)
                + TotalOn(R, dt, vid - 1)
DatesOf(R) == {row.date : row \in R}

\* C5 as stated: a request's borrowing a connection never keeps another request
\* from proceeding: whoever is at db.get() finds an idle connection.
C5_NeverBlocked ==
    \A r \in Requests : job[r] = "acquire" => IdleConns # {}

\* C5, amended: a request at db.get() finds no idle connection only while every
\* connection of the pool is held by another request whose query or mapping is
\* running, and every 200 carries the request's own fields and the aggregation
\* of its own matching rows, whatever the other requests did.
C5_BlockedOnlyByExhaustion ==
    \A r \in Requests :
        /\ (job[r] = "acquire" /\ IdleConns = {}) =>
            \A c \in Conns :
                \E q \in Requests \ {r} : held[q] = c /\ job[q] \in {"query", "map"}
        /\ Success(r) =>
            /\ response[r].body.json["name"] = JStr(SentName(r))
            /\ {p.date : p \in {Points(r)[i] : i \in 1..Len(Points(r))}}
                    = DatesOf(Matching(r))
            /\ \A i \in 1..Len(Points(r)) :
                Points(r)[i].downloads
                    = TotalOn(Matching(r), Points(r)[i].date, Cardinality(versions))

C5_Witness ==
    \E r1, r2 \in Requests :
        /\ r1 # r2
        /\ job[r1] = "acquire" /\ IdleConns = {}
        /\ job[r2] = "query"

\* C6 as stated: in a 200, `name` and `version` are the values the request
\* gave, and the response has no `version` exactly when the request had none.
C6_VersionAbsentIffAbsent ==
    \A r \in Requests :
        Success(r) =>
            /\ response[r].body.json["name"] = SuppliedValue(r, "name")
            /\ ("version" \in DOMAIN response[r].body.json)
                    <=> Supplied(r, "version")
            /\ Supplied(r, "version") =>
                    response[r].body.json["version"] = SuppliedValue(r, "version")

\* C6, amended: in a 200, `name` is the request's own name, and `version` is
\* always written: the request's own version string when it gave one, null when
\* the request had no `version` or had null, whatever the names and versions of
\* the requests in flight with it.
C6_EchoWithNullForAbsent ==
    \A r \in Requests :
        Success(r) =>
            /\ response[r].body.json["name"] = SuppliedValue(r, "name")
            /\ "version" \in DOMAIN response[r].body.json
            /\ response[r].body.json["version"]
                    = IF SentVersionGiven(r) THEN SuppliedValue(r, "version") ELSE JNull

\* Two requests of different names, one without a version and one with: the
\* first is answered null, the second its own version.
C6_Witness ==
    \E r1, r2 \in Requests :
        /\ Success(r1) /\ ~Supplied(r1, "version")
        /\ response[r1].body.json["version"] = JNull
        /\ Success(r2) /\ SentVersionGiven(r2)
        /\ response[r2].body.json["version"] = SuppliedValue(r2, "version")
        /\ SuppliedValue(r1, "name") # SuppliedValue(r2, "name")

\* C7: the downloads of a 200 are the reference aggregation: one point for
\* each date on which the request has matching rows, holding the sum of their
\* counters, and no other point.
C7_DownloadsAreTheAggregation ==
    \A r \in Requests :
        Success(r) =>
            /\ Len(Points(r)) = Cardinality(DatesOf(Matching(r)))
            /\ \A dt \in DatesOf(Matching(r)) :
                \E i \in 1..Len(Points(r)) :
                    /\ Points(r)[i].date = dt
                    /\ Points(r)[i].downloads
                            = TotalOn(Matching(r), dt, Cardinality(versions))

\* Two versions of the package counted on one date, asked for one version.
C7_Witness ==
    \E r \in Requests :
        /\ Success(r) /\ SentVersionGiven(r)
        /\ Len(Points(r)) = 1
        /\ \E x, y \in version_downloads :
            /\ x.date = y.date /\ x.version_id # y.version_id
            /\ x \in Matching(r) /\ x.downloads > 0 /\ y.downloads > 0
            /\ SentName(r) \in PackageOf(y) /\ y \notin Matching(r)

\* C8: for a valid request with no matching rows the query returns no row, the
\* mapping cannot fail, and the work that the pool and the store let run to its
\* end is answered 200 with an empty downloads sequence: the absence of rows is
\* never itself a fault.
C8_NoRowsIsEmptySuccess ==
    \A r \in Requests :
        (req[r].ok /\ Matching(r) = {}) =>
            /\ job[r] = "map" => rows[r] = <<>>
            /\ panicked[r] # "mapping"
            /\ job[r] = "completed" => value[r].downloads = <<>>
            /\ (Done(r) /\ job[r] = "completed") => (Success(r) /\ Points(r) = <<>>)

\* A version the package does not have, the package having counters.
C8_Witness ==
    \E r \in Requests :
        /\ Success(r) /\ Points(r) = <<>>
        /\ SentName(r) = "serde" /\ SentVersionGiven(r)
        /\ SuppliedValue(r, "version").s = "0.7.0"
        /\ \E row \in version_downloads : SentName(r) \in PackageOf(row)

\* C9: the downloads of a 200 are strictly ascending by date.
C9_StrictlyAscendingDates ==
    \A r \in Requests :
        Success(r) =>
            \A i, j \in 1..Len(Points(r)) :
                i < j => Points(r)[i].date < Points(r)[j].date

C9_Witness ==
    \E r \in Requests :
        /\ Success(r) /\ Len(Points(r)) >= 2
        /\ Cardinality(Matching(r)) > Len(Points(r))
====
